---- MODULE Spec2Model ----
(***************************************************************************)
(* A model of the OTC swap client (class OTCClient, src/unnamed/part_001)  *)
(* and of the escrow ledger it talks to.                                   *)
(*                                                                         *)
(* The ledger is the environment: an append-only chain of event records,   *)
(* one record per block, and a clock.  The client is the program: its      *)
(* methods are translated step by step, one step per network suspension    *)
(* (await).                                                                *)
(*                                                                         *)
(*   SpecActive  getActiveOrders run against a quiescent ledger (the whole *)
(*               handler is one action), between arbitrary ledger appends  *)
(*               and clock advances.                                       *)
(*   SpecQuery   getActiveOrders with its five stream queries in flight    *)
(*               while the ledger appends: each query is answered at the   *)
(*               height the ledger has when the answer is made.            *)
(*   SpecTx      createOrder, fillOrder, cancelOrder and                   *)
(*               cleanupExpiredOrders step by step, one step per network   *)
(*               request, with connect and setProvider and the clock.      *)
(*   SpecFee     createOrder step by step while the ledger's creation fee  *)
(*               changes.                                                  *)
(*   SpecFilter  getActiveOrders with maker and token filters.             *)
(*   SpecExpiry  getOrderExpiryInfo, isOrderExpired, isInGracePeriod and   *)
(*               getOrderCreationFee, one ledger read at a time.           *)
(*   SpecPage    the page component: its loading flag, its effect and its  *)
(*               create, fill and cancel handlers.                         *)
(***************************************************************************)
EXTENDS Integers, Sequences, FiniteSets

VARIABLES
    chain,      \* the ledger's event log, chain[i] is the record of block i
    now,        \* the clock, in seconds (Date.now() / 1000 and block time)
    out,        \* the last completed getActiveOrders call
    q,          \* the getActiveOrders call in flight: its five stream queries
    client,     \* the OTCClient object: its signer and what its contract is bound to
    ledger,     \* the ledger's order records and constants, as its read methods report them
    c,          \* the state-changing call in flight (createOrder, fillOrder, ...)
    ex,         \* the expiry query in flight (getOrderExpiryInfo, isOrderExpired, isInGracePeriod)
    page        \* the page component (src/src/app/page.tsx): its state and its handlers in flight

vars == <<chain, now, out, q, client, ledger, c, ex, page>>
txVars == <<client, ledger, c, ex, page>>

(***************************************************************************)
(* Bounds of the model.                                                    *)
(***************************************************************************)
MaxBlocks == 3      \* length of the ledger's event log
MaxOrders == 2      \* order identifiers 1..MaxOrders
MaxLoads == 2       \* loadOrders calls of the page's effect in flight
MaxOps == 2         \* handlers of the page in flight
MaxSkew == 1        \* the clock reads up to MaxSkew seconds past a multiple of ORDER_EXPIRY

(***************************************************************************)
(* Values.                                                                 *)
(***************************************************************************)
Null == "null"
MakerA == "0xAA"
MakerB == "0xBb"
TokenC == "0xC1"
TokenD == "0xd2"
ZeroAddress == "0x00"
NoId == 0 - 1

OrderIds == 1..MaxOrders

\* String.prototype.toLowerCase on the address strings of the model.
ToLowerCase(s) ==
    CASE s = "0xAA" -> "0xaa"
      [] s = "0xBb" -> "0xbb"
      [] s = "0xC1" -> "0xc1"
      [] s = "0xd2" -> "0xd2"
      [] OTHER -> s

\* BigInt.prototype.toString: the decimal digits of a non-negative integer.
RECURSIVE ToString(_)
ToString(n) ==
    IF n < 10 THEN <<n>> ELSE Append(ToString(n \div 10), n % 10)

\* const ORDER_EXPIRY = 7 * 24 * 60 * 60 in getActiveOrders.
ORDER_EXPIRY == 7 * 24 * 60 * 60

(***************************************************************************)
(* The ledger's event records.  Every record carries the same fields; a    *)
(* field an event kind does not have holds NoId or Null, and so does the   *)
(* timestamp of the kinds whose timestamp getActiveOrders never reads.     *)
(***************************************************************************)
CreatedEvent(id, maker, taker, sellToken, buyToken, ts, blk) ==
    [name |-> "OrderCreated", orderId |-> id, oldOrderId |-> NoId, newOrderId |-> NoId,
     maker |-> maker, taker |-> taker, sellToken |-> sellToken, buyToken |-> buyToken,
     timestamp |-> ts, blockNumber |-> blk]

TerminalEvent(name, id, blk) ==
    [name |-> name, orderId |-> id, oldOrderId |-> NoId, newOrderId |-> NoId,
     maker |-> Null, taker |-> Null, sellToken |-> Null, buyToken |-> Null,
     timestamp |-> NoId, blockNumber |-> blk]

RetryEvent(old, new, blk) ==
    [name |-> "RetryOrder", orderId |-> NoId, oldOrderId |-> old, newOrderId |-> new,
     maker |-> Null, taker |-> Null, sellToken |-> Null, buyToken |-> Null,
     timestamp |-> NoId, blockNumber |-> blk]

TerminalNames == {"OrderFilled", "OrderCanceled", "OrderCleanedUp"}

\* The number of OrderCreated records of a log: identifiers are assigned in order.
CreatedCount(ch) == Cardinality({i \in 1..Len(ch) : ch[i].name = "OrderCreated"})

\* The records the ledger can append as block blk at time ts.
NextEvents(ch, ts, blk) ==
    {CreatedEvent(CreatedCount(ch) + 1, m[1], m[2], m[3], m[4], ts, blk) :
        m \in {mm \in {<<MakerA, ZeroAddress, TokenC, TokenD>>,
                       <<MakerB, MakerA, TokenD, TokenC>>} :
               CreatedCount(ch) < MaxOrders}}
    \cup {TerminalEvent(n, id, blk) : n \in TerminalNames, id \in OrderIds}
    \cup {RetryEvent(r[1], r[2], blk) : r \in {rr \in OrderIds \X OrderIds : rr[1] # rr[2]}}

\* The order a record ends: the old identifier of a retry, else the identifier.
EndedBy(e) == IF e.name = "RetryOrder" THEN e.oldOrderId ELSE e.orderId

\* Order id of log ch is live: created and ended by no record.
Live(id, ch) ==
    /\ \E i \in 1..Len(ch) : ch[i].name = "OrderCreated" /\ ch[i].orderId = id
    /\ \A i \in 1..Len(ch) : ch[i].name # "OrderCreated" => EndedBy(ch[i]) # id

\* The records a ledger that keeps the order lifecycle can append: a creation,
\* or the one terminal transition of a live order.
LifecycleEvents(ch, ts, blk) ==
    {e \in NextEvents(ch, ts, blk) : e.name = "OrderCreated" \/ Live(EndedBy(e), ch)}

(***************************************************************************)
(* getActiveOrders.                                                        *)
(***************************************************************************)
\* GetActiveOrdersParams; an absent field is Null.
BlockTag(latest, n) == [latest |-> latest, n |-> n]
Latest == BlockTag(TRUE, 0)
Block(n) == BlockTag(FALSE, n)
NoBlock == BlockTag(FALSE, NoId)

Params(fromBlock, toBlock, makerAddress, sellToken, buyToken) ==
    [fromBlock |-> fromBlock, toBlock |-> toBlock, makerAddress |-> makerAddress,
     sellToken |-> sellToken, buyToken |-> buyToken]

NoParams == Params(NoBlock, NoBlock, Null, Null, Null)

\* The destructuring defaults: fromBlock = 0, toBlock = "latest".
ToBlockAlwaysLatest(params) == Latest
ToBlockOf(params) == IF params.toBlock = NoBlock THEN Latest ELSE params.toBlock
FromBlockOf(params) == IF params.fromBlock = NoBlock THEN Block(0) ELSE params.fromBlock

\* contract.queryFilter(filter, fromBlock, toBlock) answered by a ledger whose
\* log is ch: the records of one event kind in the block range, in log order.
QueryFilter(name, fromBlock, toBlock, ch) ==
    LET hi == IF toBlock.latest THEN Len(ch) ELSE toBlock.n
        lo == IF fromBlock.latest THEN Len(ch) ELSE fromBlock.n
    IN SelectSeq(ch, LAMBDA e : e.name = name /\ lo <= e.blockNumber /\ e.blockNumber <= hi)

Range(s) == {s[i] : i \in 1..Len(s)}

\* new Set(events.map((e) => e.args.orderId.toString()))
IdStrings(events) == {ToString(e.orderId) : e \in Range(events)}
RetriedIdStrings(events) == {ToString(e.oldOrderId) : e \in Range(events)}

\* const isExpired = currentTimestamp > Number(args.timestamp) + ORDER_EXPIRY
IsExpiredAtBoundary(currentTimestamp, timestamp) == currentTimestamp >= timestamp + ORDER_EXPIRY
IsExpired(currentTimestamp, timestamp) == currentTimestamp > timestamp + ORDER_EXPIRY

\* The predicate of createdEvents.filter(...).
IsActiveEventFilledKept(event, filled, canceled, cleaned, retried, currentTimestamp) ==
    LET orderId == ToString(event.orderId)
    IN /\ orderId \in filled
       /\ orderId \notin canceled
       /\ orderId \notin cleaned
       /\ orderId \notin retried
       /\ ~IsExpired(currentTimestamp, event.timestamp)
IsActiveEvent(event, filled, canceled, cleaned, retried, currentTimestamp) ==
    LET orderId == ToString(event.orderId)
    IN /\ orderId \notin filled
       /\ orderId \notin canceled
       /\ orderId \notin cleaned
       /\ orderId \notin retried
       /\ ~IsExpired(currentTimestamp, event.timestamp)

\* The object .map(...) builds from an OrderCreated record.
OrderOf(event) ==
    [orderId |-> event.orderId, maker |-> event.maker, taker |-> event.taker,
     sell |-> event.sellToken, buy |-> event.buyToken,
     createdAt |-> event.timestamp, isActive |-> TRUE]

\* The three optional filters, each applied when its parameter is truthy.
ApplyFiltersCaseSensitive(orders, params) ==
    LET byMaker == IF params.makerAddress # Null
                   THEN SelectSeq(orders, LAMBDA o : o.maker = params.makerAddress)
                   ELSE orders
        bySell == IF params.sellToken # Null
                  THEN SelectSeq(byMaker, LAMBDA o : o.sell = params.sellToken)
                  ELSE byMaker
        byBuy == IF params.buyToken # Null
                 THEN SelectSeq(bySell, LAMBDA o : o.buy = params.buyToken)
                 ELSE bySell
    IN byBuy
ApplyFilters(orders, params) ==
    LET byMaker == IF params.makerAddress # Null
                   THEN SelectSeq(orders, LAMBDA o :
                            ToLowerCase(o.maker) = ToLowerCase(params.makerAddress))
                   ELSE orders
        bySell == IF params.sellToken # Null
                  THEN SelectSeq(byMaker, LAMBDA o :
                            ToLowerCase(o.sell) = ToLowerCase(params.sellToken))
                  ELSE byMaker
        byBuy == IF params.buyToken # Null
                 THEN SelectSeq(bySell, LAMBDA o :
                            ToLowerCase(o.buy) = ToLowerCase(params.buyToken))
                 ELSE bySell
    IN byBuy

\* The body of getActiveOrders after Promise.all has returned the five streams.
ActiveOrders(createdEvents, filledEvents, canceledEvents, cleanedEvents, retryEvents, currentTimestamp, params) ==
    LET filledOrderIds == IdStrings(filledEvents)
        canceledOrderIds == IdStrings(canceledEvents)
        cleanedOrderIds == IdStrings(cleanedEvents)
        retriedOrderIds == RetriedIdStrings(retryEvents)
        active == SelectSeq(createdEvents, LAMBDA e :
                      IsActiveEvent(e, filledOrderIds, canceledOrderIds, cleanedOrderIds,
                                    retriedOrderIds, currentTimestamp))
    IN ApplyFilters([i \in 1..Len(active) |-> OrderOf(active[i])], params)

\* getActiveOrders against a ledger that does not change during the call.
GetActiveOrders(params, ch, currentTimestamp) ==
    LET from == FromBlockOf(params)
        to == ToBlockOf(params)
    IN ActiveOrders(QueryFilter("OrderCreated", from, to, ch),
                    QueryFilter("OrderFilled", from, to, ch),
                    QueryFilter("OrderCanceled", from, to, ch),
                    QueryFilter("OrderCleanedUp", from, to, ch),
                    QueryFilter("RetryOrder", from, to, ch),
                    currentTimestamp, params)

(***************************************************************************)
(* JavaScript numbers and bigints.  ethers decodes every integer the       *)
(* ledger returns as a bigint (the client multiplies the fee by BigInt(90) *)
(* at line 52 and adds BigInt(14 * 24 * 60 * 60) to order.timestamp at     *)
(* line 197); a + b with one bigint and one number operand throws a        *)
(* TypeError, a comparison of the two does not.                            *)
(***************************************************************************)
BigIntV(n) == [type |-> "bigint", v |-> n]
NumberV(n) == [type |-> "number", v |-> n]
TypeErrorV == [type |-> "TypeError", v |-> 0]

JsAdd(a, b) == IF a.type = b.type THEN [type |-> a.type, v |-> a.v + b.v] ELSE TypeErrorV

MixedTypes == "Cannot mix BigInt and other types, use explicit conversions"

(***************************************************************************)
(* The client object.                                                      *)
(***************************************************************************)
Provider == "provider"

\* The constructor: no signer, the contract bound to the provider.
NewClient == [signer |-> Null, runner |-> Provider]

\* connect(signer)
Connect(cl, signer) == [signer |-> signer, runner |-> signer]

\* setProvider(provider)
SetProvider(cl) == [cl EXCEPT !.runner = Provider]

(***************************************************************************)
(* The ledger's read methods: orders(id) returns the record of the         *)
(* identifier, all zero for an identifier it has no order for;             *)
(* orderCreationFee(), ORDER_EXPIRY() and GRACE_PERIOD() return its        *)
(* constants.                                                              *)
(***************************************************************************)
TxOrderIds == {1, 2}

OrderRecord(maker, taker, ts, isActive) ==
    [maker |-> maker, taker |-> taker, timestamp |-> BigIntV(ts), isActive |-> isActive]

ZeroOrder == OrderRecord(ZeroAddress, ZeroAddress, 0, FALSE)

\* A value no read returns: null or undefined in place of the record.
NullOrder == OrderRecord(Null, Null, 0, FALSE)

LedgerOf(order1, fee, expiry, grace) ==
    [orders |-> [id \in TxOrderIds |-> IF id = 1 THEN order1 ELSE ZeroOrder],
     fee |-> BigIntV(fee), expiry |-> BigIntV(expiry), grace |-> BigIntV(grace)]

Days(n) == n * 24 * 60 * 60

QuietLedger == LedgerOf(ZeroOrder, 0, Days(7), Days(7))

\* The ledgers of the model: order 1 exists, made by either maker, open to any
\* taker or restricted to MakerA, active or not, created at time 0; order 2
\* does not exist.
Ledgers ==
    {LedgerOf(OrderRecord(m, t, 0, a), 3, Days(7), g) :
        m \in {MakerA, MakerB}, t \in {ZeroAddress, MakerA}, a \in BOOLEAN,
        g \in {Days(7), Days(3)}}

(***************************************************************************)
(* A state-changing call.  pc is the network request the call is suspended *)
(* at, or idle, done or failed; issued lists the requests the call has     *)
(* made; approve and submit are none, sent (the request is made, the       *)
(* transaction may be on its way) or confirmed (wait() has returned).      *)
(***************************************************************************)
NoArgs == [taker |-> Null, sellToken |-> Null, sellAmount |-> 0, buyToken |-> Null,
           buyAmount |-> 0, orderId |-> NoId]

NoError == [prefix |-> "", message |-> ""]

\* A record of a transaction receipt: the event's name, its orderId (oldOrderId
\* for RetryOrder) and its timestamp, a bigint.
Log(name, id, ts) == [name |-> name, orderId |-> id, timestamp |-> BigIntV(ts)]

\* Nothing returned.
NoResult == [cleanedOrders |-> <<>>, errors |-> <<>>, retries |-> <<>>, feesDistributed |-> <<>>]

NoTx == [op |-> "none", pc |-> "idle", args |-> NoArgs, issued |-> <<>>,
         caller |-> Null, order |-> NullOrder, asked |-> Null, signerAddress |-> Null,
         fee |-> BigIntV(0), minFee |-> BigIntV(0), maxFee |-> BigIntV(0),
         value |-> BigIntV(0), allowance |-> 0,
         currentTime |-> 0, approver |-> Null, submitter |-> Null,
         approve |-> "none", submit |-> "none", logs |-> <<>>, result |-> NoResult,
         error |-> NoError]

Issue(call, request) == [call EXCEPT !.pc = request, !.issued = Append(@, request)]
Throw(call, prefix, message) ==
    [call EXCEPT !.pc = "failed", !.error = [prefix |-> prefix, message |-> message]]
Return(call) == [call EXCEPT !.pc = "done"]

\* A state-changing method of this.contract is called: a contract bound to the
\* provider cannot send transactions.
NoSender == "contract runner does not support sending transactions"

Submit(call, cl, prefix, request) ==
    IF cl.runner = Provider
    THEN Throw(call, prefix, NoSender)
    ELSE Issue([call EXCEPT !.submit = "sent", !.submitter = cl.runner], request)

\* receipt.logs.find((log) => log.fragment?.name === name)
ConfirmedAnyReceipt(call, logs, prefix, name, message) ==
    Return([call EXCEPT !.submit = "confirmed", !.logs = logs])
Confirmed(call, logs, prefix, name, message) ==
    LET k == [call EXCEPT !.submit = "confirmed", !.logs = logs]
    IN IF \E i \in 1..Len(logs) : logs[i].name = name
       THEN Return(k)
       ELSE Throw(k, prefix, message)

(***************************************************************************)
(* createOrder                                                             *)
(***************************************************************************)
CreatePrefix == "Failed to create order: "

\* Lines 39-51: the signer check, then the fee read.
CreateOrderUnchecked(cl, args) ==
    LET call == [NoTx EXCEPT !.op = "createOrder", !.caller = cl.signer,
                             !.args = [args EXCEPT !.taker = IF @ = Null THEN ZeroAddress ELSE @]]
    IN Issue(call, "orderCreationFee")
CreateOrderStart(cl, args) ==
    LET call == [NoTx EXCEPT !.op = "createOrder", !.caller = cl.signer,
                             !.args = [args EXCEPT !.taker = IF @ = Null THEN ZeroAddress ELSE @]]
    IN IF cl.signer = Null
       THEN Throw(call, "", "No signer connected")
       ELSE Issue(call, "orderCreationFee")

\* Lines 56-61: the message of the first rule the parameters break, "" if none.
ValidationNoSameToken(args) ==
    IF args.sellToken = ZeroAddress THEN "Invalid sell token"
    ELSE IF args.buyToken = ZeroAddress THEN "Invalid buy token"
    ELSE IF args.sellAmount <= 0 THEN "Invalid sell amount"
    ELSE IF args.buyAmount <= 0 THEN "Invalid buy amount"
    ELSE ""
Validation(args) ==
    IF args.sellToken = ZeroAddress THEN "Invalid sell token"
    ELSE IF args.buyToken = ZeroAddress THEN "Invalid buy token"
    ELSE IF args.sellToken = args.buyToken THEN "Cannot swap same token"
    ELSE IF args.sellAmount <= 0 THEN "Invalid sell amount"
    ELSE IF args.buyAmount <= 0 THEN "Invalid buy amount"
    ELSE ""

\* Lines 51-75: the fee is back; minFee and maxFee are computed from it (lines
\* 52-53, bigint arithmetic: the division truncates) and not read again;
\* validation, then the approval is sent from this.signer.
CreateOrderFeeRead(call, cl, fee) ==
    LET k == [call EXCEPT !.fee = fee,
                          !.minFee = BigIntV((fee.v * 90) \div 100),
                          !.maxFee = BigIntV((fee.v * 150) \div 100)]
    IN IF Validation(k.args) # ""
       THEN Throw(k, CreatePrefix, Validation(k.args))
       ELSE Issue([k EXCEPT !.approve = "sent", !.approver = cl.signer], "approve")

\* Line 76: the approval is sent; wait for its confirmation.
CreateOrderApproveNotAwaited(call, cl) ==
    Submit(call, cl, CreatePrefix, "createOrder")
CreateOrderApproveSent(call, cl) == Issue(call, "approve.wait")

\* Lines 76-86: the approval is confirmed, the token's allowance for the ledger
\* is sellAmount; the create call is sent with { value: fee }, the fee read at
\* line 51.
CreateOrderApprovedRereadFee(call, cl, ld) ==
    Submit([call EXCEPT !.approve = "confirmed", !.allowance = call.args.sellAmount,
                        !.value = ld.fee],
           cl, CreatePrefix, "createOrder")
CreateOrderApproved(call, cl, ld) ==
    Submit([call EXCEPT !.approve = "confirmed", !.allowance = call.args.sellAmount,
                        !.value = call.fee],
           cl, CreatePrefix, "createOrder")

\* Line 87
CreateOrderSubmitted(call) == Issue(call, "createOrder.wait")

\* Lines 87-110: the receipt is back; the catch block rethrows and makes no
\* further request.
CreateOrderConfirmedRevoking(call, logs) ==
    LET k == Confirmed(call, logs, CreatePrefix, "OrderCreated", "OrderCreated event not found")
    IN IF k.pc = "failed"
       THEN [k EXCEPT !.allowance = 0, !.issued = Append(@, "approve")]
       ELSE k
CreateOrderConfirmed(call, logs) == Confirmed(call, logs, CreatePrefix, "OrderCreated", "OrderCreated event not found")

(***************************************************************************)
(* fillOrder                                                               *)
(***************************************************************************)
FillPrefix == "Failed to fill order: "

\* Lines 113-119
FillOrderStart(cl, args) ==
    LET call == [NoTx EXCEPT !.op = "fillOrder", !.caller = cl.signer, !.args = args]
    IN IF cl.signer = Null
       THEN Throw(call, "", "No signer connected")
       ELSE Issue(call, "orders")

\* Lines 141-145: the buy token contract is bound to this.signer, whose address
\* is asked for.
FillOrderAskAddress(call, cl) ==
    Issue([call EXCEPT !.approver = cl.signer, !.asked = cl.signer], "getAddress")

\* Lines 119-145: the order record is back.  order.timestamp is a bigint and
\* 7 * 24 * 60 * 60 a number: their sum at line 124 throws.
FillOrderRead(call, cl, order, time) ==
    LET k == [call EXCEPT !.order = order, !.currentTime = time]
        deadline == JsAdd(order.timestamp, NumberV(7 * 24 * 60 * 60))
    IN IF order = NullOrder THEN Throw(k, FillPrefix, "Order does not exist")
       ELSE IF ~order.isActive THEN Throw(k, FillPrefix, "Order is not active")
       ELSE IF deadline = TypeErrorV THEN Throw(k, FillPrefix, MixedTypes)
       ELSE IF time > deadline.v THEN Throw(k, FillPrefix, "Order has expired")
       ELSE IF order.taker # ZeroAddress
            THEN Issue([k EXCEPT !.asked = cl.signer], "getAddress.taker")
            ELSE FillOrderAskAddress(k, cl)

\* Lines 129-145: the signer's address is back for the taker check.
FillOrderTakerChecked(call, cl, address) ==
    IF call.order.taker # address
    THEN Throw(call, FillPrefix, "Not authorized to fill this order")
    ELSE FillOrderAskAddress(call, cl)

\* Lines 145-146
FillOrderAddress(call, address) == Issue([call EXCEPT !.signerAddress = address], "balanceOf")

\* Lines 146-154
FillOrderBalance(call, balance) ==
    IF balance < call.args.buyAmount
    THEN Throw(call, FillPrefix, "Insufficient balance for buy token")
    ELSE Issue([call EXCEPT !.approve = "sent"], "approve")

\* Line 155
FillOrderApproveSent(call) == Issue(call, "approve.wait")

\* Lines 154-157: the approval is confirmed, the allowance is buyAmount.
FillOrderApproved(call, cl) ==
    Submit([call EXCEPT !.approve = "confirmed", !.allowance = call.args.buyAmount],
           cl, FillPrefix, "fillOrder")

\* Line 158
FillOrderSubmitted(call) == Issue(call, "fillOrder.wait")

\* Lines 158-174
FillOrderConfirmed(call, logs) == Confirmed(call, logs, FillPrefix, "OrderFilled", "OrderFilled event not found")

(***************************************************************************)
(* cancelOrder                                                             *)
(***************************************************************************)
CancelPrefix == "Failed to cancel order: "

\* Lines 183-188
CancelOrderStart(cl, args) ==
    LET call == [NoTx EXCEPT !.op = "cancelOrder", !.caller = cl.signer, !.args = args]
    IN IF cl.signer = Null
       THEN Throw(call, "", "No signer connected")
       ELSE Issue(call, "orders")

\* Lines 188-191
CancelOrderReadActiveOnly(call, cl, order) ==
    LET k == [call EXCEPT !.order = order]
    IN IF order = NullOrder
       THEN Throw(k, CancelPrefix, "Order does not exist")
       ELSE IF ~order.isActive
            THEN Throw(k, CancelPrefix, "Order is not active")
            ELSE Issue([k EXCEPT !.asked = cl.signer], "getAddress")
CancelOrderRead(call, cl, order) ==
    LET k == [call EXCEPT !.order = order]
    IN IF order = NullOrder
       THEN Throw(k, CancelPrefix, "Order does not exist")
       ELSE Issue([k EXCEPT !.asked = cl.signer], "getAddress")

\* Lines 191-202: the maker check, the deadline of 14 days, the cancel call.
CancelOrderAddress(call, cl, address, time) ==
    LET k == [call EXCEPT !.signerAddress = address, !.currentTime = time]
        currentTime == BigIntV(time)
        gracePeriodEnd == JsAdd(k.order.timestamp, BigIntV(14 * 24 * 60 * 60))
    IN IF k.order.maker # address THEN Throw(k, CancelPrefix, "Only maker can cancel order")
       ELSE IF gracePeriodEnd = TypeErrorV THEN Throw(k, CancelPrefix, MixedTypes)
       ELSE IF currentTime.v > gracePeriodEnd.v
            THEN Throw(k, CancelPrefix, "Grace period has expired")
       ELSE Submit(k, cl, CancelPrefix, "cancelOrder")

\* Line 203
CancelOrderSubmitted(call) == Issue(call, "cancelOrder.wait")

\* Lines 203-218
CancelOrderConfirmed(call, logs) == Confirmed(call, logs, CancelPrefix, "OrderCanceled", "OrderCanceled event not found")

(***************************************************************************)
(* cleanupExpiredOrders                                                    *)
(***************************************************************************)
CleanupPrefix == "Failed to cleanup expired orders: "

\* Lines 426-430
CleanupStart(cl, args) ==
    LET call == [NoTx EXCEPT !.op = "cleanupExpiredOrders", !.caller = cl.signer]
    IN IF cl.signer = Null
       THEN Throw(call, "", "No signer connected")
       ELSE Submit(call, cl, CleanupPrefix, "cleanupExpiredOrders")

\* Line 431
CleanupSubmitted(call) == Issue(call, "cleanupExpiredOrders.wait")

\* receipt.logs.filter((log) => log.fragment?.name === name)
FilterLogs(logs, name) == SelectSeq(logs, LAMBDA l : l.name = name)

\* events.map((e) => ({orderId: e.args.orderId, ..., timestamp: Number(e.args.timestamp)}))
Entries(events) ==
    [i \in 1..Len(events) |-> [orderId |-> events[i].orderId, timestamp |-> events[i].timestamp.v]]

\* Lines 433-474: the four lists of the returned structure.
CleanupResultFirstOnly(logs) ==
    [cleanedOrders |-> Entries(SelectSeq(FilterLogs(logs, "OrderCleanedUp"),
                                         LAMBDA l : l = Head(FilterLogs(logs, "OrderCleanedUp")))),
     errors |-> Entries(FilterLogs(logs, "CleanupError")),
     retries |-> Entries(FilterLogs(logs, "RetryOrder")),
     feesDistributed |-> Entries(FilterLogs(logs, "CleanupFeesDistributed"))]
CleanupResult(logs) ==
    [cleanedOrders |-> Entries(FilterLogs(logs, "OrderCleanedUp")),
     errors |-> Entries(FilterLogs(logs, "CleanupError")),
     retries |-> Entries(FilterLogs(logs, "RetryOrder")),
     feesDistributed |-> Entries(FilterLogs(logs, "CleanupFeesDistributed"))]

\* Lines 431-474: every record of the receipt is kept, none is required.
CleanupConfirmed(call, logs) ==
    Return([call EXCEPT !.submit = "confirmed", !.logs = logs, !.result = CleanupResult(logs)])

(***************************************************************************)
(* getOrderExpiryInfo: the two constants the ledger reports when both      *)
(* reads return, 7 days and 7 days when either fails.                      *)
(***************************************************************************)
GetOrderExpiryInfoPerRead(ld, expiryRead, graceRead) ==
    [orderExpiry |-> IF expiryRead THEN ld.expiry.v ELSE 7 * 24 * 60 * 60,
     gracePeriod |-> IF graceRead THEN ld.grace.v ELSE 7 * 24 * 60 * 60]
GetOrderExpiryInfo(ld, expiryRead, graceRead) ==
    IF expiryRead /\ graceRead
    THEN [orderExpiry |-> ld.expiry.v, gracePeriod |-> ld.grace.v]
    ELSE [orderExpiry |-> 7 * 24 * 60 * 60, gracePeriod |-> 7 * 24 * 60 * 60]

\* isOrderExpired: Date.now() / 1000 > timestamp + orderExpiry, the clock read
\* in milliseconds and not rounded.
IsOrderExpired(info, nowMs, timestamp) == nowMs > (timestamp + info.orderExpiry) * 1000

\* isInGracePeriod
IsInGracePeriodOpenEnd(info, nowMs, timestamp) ==
    /\ nowMs > (timestamp + info.orderExpiry) * 1000
    /\ nowMs < (timestamp + info.orderExpiry + info.gracePeriod) * 1000
IsInGracePeriod(info, nowMs, timestamp) ==
    /\ nowMs > (timestamp + info.orderExpiry) * 1000
    /\ nowMs <= (timestamp + info.orderExpiry + info.gracePeriod) * 1000

\* The two reads of Promise.all in getOrderExpiryInfo.
ExpiryReads == {"ORDER_EXPIRY", "GRACE_PERIOD"}

NoInfo == [orderExpiry |-> 0, gracePeriod |-> 0]

NoExpiryCall ==
    [op |-> "none", pc |-> "idle", timestamp |-> 0, reads |-> [n \in ExpiryReads |-> "pending"],
     info |-> NoInfo, at |-> 0, ms |-> 0, result |-> FALSE,
     feeRead |-> "none", value |-> BigIntV(0)]

\* Lines 393-398, 413, 418: the method is entered and the two reads are issued.
ExpiryQueryStart(op, timestamp) ==
    [NoExpiryCall EXCEPT !.op = op, !.pc = "reading", !.timestamp = timestamp]

\* getOrderExpiryInfo has returned info to the method that awaited it: the
\* method computes its value with the clock reading time seconds and ms
\* milliseconds.
ExpiryQueryEnd(call, info, time, ms) ==
    [call EXCEPT !.pc = "done", !.info = info, !.at = time, !.ms = ms,
                 !.result = CASE call.op = "isOrderExpired" ->
                                    IsOrderExpired(info, time * 1000 + ms, call.timestamp)
                              [] call.op = "isInGracePeriod" ->
                                    IsInGracePeriod(info, time * 1000 + ms, call.timestamp)
                              [] OTHER -> FALSE]

\* One read of Promise.all returns: the call stays suspended until both have,
\* then getOrderExpiryInfo returns the ledger's values.
ExpiryReadReturned(call, ld, n, time, ms) ==
    LET k == [call EXCEPT !.reads[n] = "ok"]
    IN IF \A r \in ExpiryReads : k.reads[r] = "ok"
       THEN ExpiryQueryEnd(k, GetOrderExpiryInfo(ld, TRUE, TRUE), time, ms)
       ELSE k

\* One read of Promise.all fails: Promise.all rejects and the catch block
\* returns the defaults.
ExpiryReadFailed(call, ld, n, time, ms) ==
    LET k == [call EXCEPT !.reads[n] = "failed"]
    IN ExpiryQueryEnd(k, GetOrderExpiryInfo(ld, k.reads["ORDER_EXPIRY"] = "ok",
                                            k.reads["GRACE_PERIOD"] = "ok"), time, ms)

\* Lines 383-385: getOrderCreationFee is entered and reads the fee.
FeeQueryStart ==
    [NoExpiryCall EXCEPT !.op = "getOrderCreationFee", !.pc = "readingFee", !.feeRead = "pending"]

\* Line 386: the read returns and its value is returned.
FeeReadReturned(call, ld) ==
    [call EXCEPT !.pc = "done", !.feeRead = "ok", !.value = ld.fee]

\* Lines 387-390: the read fails; the catch block warns and returns BigInt(0).
FeeReadFailed(call) ==
    [call EXCEPT !.pc = "done", !.feeRead = "failed", !.value = BigIntV(0)]

(***************************************************************************)
(* The call resumes with the answer to the request it is suspended at.     *)
(***************************************************************************)
Answer(fee, order, address, balance, logs) ==
    [fee |-> fee, order |-> order, address |-> address, balance |-> balance, logs |-> logs]

Receipts(op) ==
    CASE op = "createOrder" -> {<<>>, <<Log("OrderCreated", 1, 0)>>,
                                <<Log("Transfer", 0, 0), Log("OrderCreated", 1, 0)>>}
      [] op = "fillOrder" -> {<<>>, <<Log("OrderFilled", 1, 0)>>}
      [] op = "cancelOrder" -> {<<>>, <<Log("OrderCanceled", 1, 0)>>}
      [] OTHER -> {<<>>,
                   <<Log("OrderCleanedUp", 2, 1), Log("CleanupError", 1, 1),
                     Log("OrderCleanedUp", 1, 1)>>,
                   <<Log("RetryOrder", 1, 0), Log("Transfer", 0, 0),
                     Log("CleanupFeesDistributed", 0, 0)>>}

\* The answers the ledger, the token and the signer can give to the request.
Answers(call, ld) ==
    CASE call.pc = "orderCreationFee" -> {Answer(ld.fee, NullOrder, Null, 0, <<>>)}
      [] call.pc = "orders" ->
            {Answer(BigIntV(0), ld.orders[call.args.orderId], Null, 0, <<>>)}
      [] call.pc \in {"getAddress", "getAddress.taker"} ->
            {Answer(BigIntV(0), NullOrder, call.asked, 0, <<>>)}
      [] call.pc = "balanceOf" ->
            {Answer(BigIntV(0), NullOrder, Null, b, <<>>) : b \in {0, 1}}
      [] call.pc \in {"createOrder.wait", "fillOrder.wait", "cancelOrder.wait",
                      "cleanupExpiredOrders.wait"} ->
            {Answer(BigIntV(0), NullOrder, Null, 0, l) : l \in Receipts(call.op)}
      [] OTHER -> {Answer(BigIntV(0), NullOrder, Null, 0, <<>>)}

Continue(call, cl, a, time, ld) ==
    CASE call.op = "createOrder" ->
            (CASE call.pc = "orderCreationFee" -> CreateOrderFeeRead(call, cl, a.fee)
               [] call.pc = "approve" -> CreateOrderApproveSent(call, cl)
               [] call.pc = "approve.wait" -> CreateOrderApproved(call, cl, ld)
               [] call.pc = "createOrder" -> CreateOrderSubmitted(call)
               [] OTHER -> CreateOrderConfirmed(call, a.logs))
      [] call.op = "fillOrder" ->
            (CASE call.pc = "orders" -> FillOrderRead(call, cl, a.order, time)
               [] call.pc = "getAddress.taker" -> FillOrderTakerChecked(call, cl, a.address)
               [] call.pc = "getAddress" -> FillOrderAddress(call, a.address)
               [] call.pc = "balanceOf" -> FillOrderBalance(call, a.balance)
               [] call.pc = "approve" -> FillOrderApproveSent(call)
               [] call.pc = "approve.wait" -> FillOrderApproved(call, cl)
               [] call.pc = "fillOrder" -> FillOrderSubmitted(call)
               [] OTHER -> FillOrderConfirmed(call, a.logs))
      [] call.op = "cancelOrder" ->
            (CASE call.pc = "orders" -> CancelOrderRead(call, cl, a.order)
               [] call.pc = "getAddress" -> CancelOrderAddress(call, cl, a.address, time)
               [] call.pc = "cancelOrder" -> CancelOrderSubmitted(call)
               [] OTHER -> CancelOrderConfirmed(call, a.logs))
      [] OTHER ->
            (CASE call.pc = "cleanupExpiredOrders" -> CleanupSubmitted(call)
               [] OTHER -> CleanupConfirmed(call, a.logs))

\* The catch block of each method: the failure of a request is rethrown with
\* the method's prefix.
PrefixOf(op) ==
    CASE op = "createOrder" -> CreatePrefix
      [] op = "fillOrder" -> FillPrefix
      [] op = "cancelOrder" -> CancelPrefix
      [] OTHER -> CleanupPrefix

NetworkError == "network error"

RejectedRetried(call) ==
    IF Len(call.issued) < 6
    THEN Issue(call, call.pc)
    ELSE Throw(call, PrefixOf(call.op), NetworkError)
Rejected(call) == Throw(call, PrefixOf(call.op), NetworkError)

(***************************************************************************)
(* The page component (src/src/app/page.tsx).  client: the context has     *)
(* supplied a client; address: the connected account; loading: the        *)
(* loading flag; error: an error message is set; tab: the selected tab;    *)
(* orders: the number of orders listed, all made by MakerA; loads: the     *)
(* loadOrders calls of the effect in flight; ops: the handlers in flight,  *)
(* each suspended at its client call (pc "client") or at its loadOrders    *)
(* call (pc "loadOrders").                                                 *)
(***************************************************************************)
NoPage == [client |-> FALSE, address |-> MakerA, loading |-> FALSE, error |-> FALSE,
           tab |-> 0, orders |-> 0, loads |-> 0, ops |-> <<>>]

\* Lines 72-75: loadOrders returns at once without a client, else sets the
\* loading flag and calls getActiveOrders.
LoadOrdersStart(p) ==
    IF ~p.client THEN p ELSE [p EXCEPT !.loading = TRUE, !.error = FALSE]

\* Lines 76-84: getActiveOrders has returned n orders; finally clears the flag.
LoadOrdersReturned(p, n) == [p EXCEPT !.orders = n, !.loading = FALSE]

\* Lines 80-84: getActiveOrders has failed; the error is kept, finally clears
\* the flag.
LoadOrdersFailed(p) == [p EXCEPT !.error = TRUE, !.loading = FALSE]

\* Lines 53-59: the effect of a change of client or address calls loadOrders.
UseEffect(p) == IF ~p.client THEN p ELSE [LoadOrdersStart(p) EXCEPT !.loads = @ + 1]

\* Lines 115-122, 139-145, 158-163: a handler sets the loading flag and calls
\* the client.
HandleStart(p, name) ==
    IF ~p.client
    THEN p
    ELSE [p EXCEPT !.loading = TRUE, !.error = FALSE,
                   !.ops = Append(@, [name |-> name, pc |-> "client"])]

\* Lines 123, 146, 164: the client call has returned; await loadOrders().
HandleClientReturned(p, i) == [LoadOrdersStart(p) EXCEPT !.ops[i].pc = "loadOrders"]

\* Lines 134-136, 153-155, 168-170: finally clears the flag and handler i is
\* over.
HandleFinally(p, i) ==
    [p EXCEPT !.loading = FALSE,
              !.ops = SubSeq(@, 1, i - 1) \o SubSeq(@, i + 1, Len(@))]

\* Lines 131-136, 150-155, 165-170: the client call has failed; catch keeps
\* the error.
HandleClientFailed(p, i) == HandleFinally([p EXCEPT !.error = TRUE], i)

\* Lines 229-231 and 261-293: the list of orders is rendered when tab 0 is
\* selected and the flag is clear; an order of another maker has a Fill
\* button, an order of the account a Cancel button, both disabled by the flag.
OrderButtonEnabled(p, name) ==
    /\ p.tab = 0 /\ ~p.loading /\ p.orders > 0
    /\ (name = "cancelOrder") = (p.address = MakerA)

\* Lines 314 and 416-430: the form is rendered when tab 1 is selected and the
\* flag is clear; its button is disabled without a client.
CreateButtonEnabled(p) == p.tab = 1 /\ ~p.loading /\ p.client

(***************************************************************************)
(* SpecActive: the ledger appends, the clock advances, getActiveOrders is  *)
(* called.                                                                 *)
(***************************************************************************)
NoCall == [called |-> FALSE, params |-> NoParams, height |-> 0, now |-> 0, orders |-> <<>>]

CallParams ==
    {Params(NoBlock, to, mk, Null, Null) : to \in {NoBlock, Block(2)},
                                           mk \in {Null}}

StreamNames == {"OrderCreated", "OrderFilled", "OrderCanceled", "OrderCleanedUp", "RetryOrder"}

\* No call in flight.  seen[n] is the ledger height at which the query of
\* stream n was answered, NoId while it is pending.
NoQuery == [pc |-> "idle", start |-> 0, seen |-> [n \in StreamNames |-> NoId]]

InitActive ==
    /\ chain = <<>>
    /\ now = 0
    /\ out = NoCall
    /\ q = NoQuery
    /\ client = NewClient
    /\ ledger = QuietLedger
    /\ c = NoTx
    /\ ex = NoExpiryCall
    /\ page = NoPage

LedgerAppend ==
    /\ Len(chain) < MaxBlocks
    /\ \E e \in NextEvents(chain, now, Len(chain) + 1) : chain' = Append(chain, e)
    /\ UNCHANGED <<now, out, q, txVars>>

\* The clock values of the model: up to MaxSkew seconds after time 0 and after
\* one order lifetime.
ActiveClock == {k * ORDER_EXPIRY + s : k \in 0..1, s \in 0..MaxSkew}

Tick ==
    /\ \E t \in ActiveClock :
          /\ t > now
          /\ now' = t
    /\ UNCHANGED <<chain, out, q, txVars>>

CallGetActiveOrders ==
    /\ \E params \in CallParams :
          out' = [called |-> TRUE, params |-> params, height |-> Len(chain), now |-> now,
                  orders |-> GetActiveOrders(params, chain, now)]
    /\ UNCHANGED <<chain, now, q, txVars>>

NextActive == LedgerAppend \/ Tick \/ CallGetActiveOrders

SpecActive == InitActive /\ [][NextActive]_vars

(***************************************************************************)
(* SpecQuery: getActiveOrders() step by step.  Promise.all issues the five *)
(* queryFilter calls with toBlock = "latest"; the ledger resolves "latest" *)
(* for each query when it answers it.                                      *)
(***************************************************************************)
Prefix(ch, h) == SubSeq(ch, 1, h)

\* Lines 237-255: the five queries are issued and the call suspends.
QueryStart ==
    /\ q.pc = "idle"
    /\ q' = [pc |-> "waiting", start |-> Len(chain), seen |-> [n \in StreamNames |-> NoId]]
    /\ UNCHANGED <<chain, now, out, txVars>>

\* The ledger answers one pending query from its log as it is now.
QueryAnswer ==
    /\ q.pc = "waiting"
    /\ \E n \in StreamNames :
          /\ q.seen[n] = NoId
          /\ q' = [q EXCEPT !.seen[n] = Len(chain)]
    /\ UNCHANGED <<chain, now, out, txVars>>

\* One pending query fails: Promise.all rejects and the catch block rethrows.
QueryFailPartial ==
    /\ q.pc = "waiting"
    /\ \E n \in StreamNames : q.seen[n] = NoId
    /\ q' = [q EXCEPT !.pc = "failed"]
    /\ out' = [called |-> TRUE, params |-> NoParams, height |-> Len(chain), now |-> now,
               orders |-> ActiveOrders(
                   QueryFilter("OrderCreated", Block(0), Latest, Prefix(chain, IF q.seen["OrderCreated"] = NoId THEN 0 ELSE q.seen["OrderCreated"])),
                   <<>>, <<>>, <<>>, <<>>, now, NoParams)]
    /\ UNCHANGED <<chain, now, txVars>>
QueryFail ==
    /\ q.pc = "waiting"
    /\ \E n \in StreamNames : q.seen[n] = NoId
    /\ q' = [q EXCEPT !.pc = "failed"]
    /\ UNCHANGED <<chain, now, out, txVars>>

\* Lines 269-343: all five answers are in, the result is computed and returned.
QueryJoin ==
    /\ q.pc = "waiting"
    /\ \A n \in StreamNames : q.seen[n] # NoId
    /\ q' = [q EXCEPT !.pc = "done"]
    /\ out' = [called |-> TRUE, params |-> NoParams, height |-> Len(chain), now |-> now,
               orders |-> ActiveOrders(
                   QueryFilter("OrderCreated", Block(0), Latest, Prefix(chain, q.seen["OrderCreated"])),
                   QueryFilter("OrderFilled", Block(0), Latest, Prefix(chain, q.seen["OrderFilled"])),
                   QueryFilter("OrderCanceled", Block(0), Latest, Prefix(chain, q.seen["OrderCanceled"])),
                   QueryFilter("OrderCleanedUp", Block(0), Latest, Prefix(chain, q.seen["OrderCleanedUp"])),
                   QueryFilter("RetryOrder", Block(0), Latest, Prefix(chain, q.seen["RetryOrder"])),
                   now, NoParams)]
    /\ UNCHANGED <<chain, now, txVars>>

\* The ledger appends a block while the call is in flight or idle.
LedgerStep ==
    /\ Len(chain) < MaxBlocks
    /\ \E e \in LifecycleEvents(chain, now, Len(chain) + 1) : chain' = Append(chain, e)
    /\ UNCHANGED <<now, out, q, txVars>>

NextQuery == LedgerStep \/ QueryStart \/ QueryAnswer \/ QueryFail \/ QueryJoin

SpecQuery == InitActive /\ [][NextQuery]_vars

(***************************************************************************)
(* SpecTx: the client is constructed, connect and setProvider rebind it,   *)
(* the state-changing methods are called one at a time and resume when the *)
(* network answers or fails, the clock advances.                           *)
(***************************************************************************)
TxClock == {k * ORDER_EXPIRY + s : k \in 0..2, s \in 0..MaxSkew}

CreateArgs ==
    {[NoArgs EXCEPT !.sellToken = st, !.sellAmount = sa, !.buyToken = bt, !.buyAmount = ba] :
        st \in {ZeroAddress, TokenC, TokenD}, bt \in {ZeroAddress, TokenC, TokenD},
        sa \in {0 - 1, 1}, ba \in {0, 1}}

OrderArgs == {[NoArgs EXCEPT !.orderId = id, !.buyToken = TokenD, !.buyAmount = 1] : id \in TxOrderIds}

Running == c.pc \notin {"idle", "done", "failed"}

InitTx ==
    /\ chain = <<>>
    /\ now = 0
    /\ out = NoCall
    /\ q = NoQuery
    /\ client = NewClient
    /\ ledger \in Ledgers
    /\ c = NoTx
    /\ ex = NoExpiryCall
    /\ page = NoPage

ConnectSigner ==
    /\ \E s \in {MakerA, MakerB} : client' = Connect(client, s)
    /\ UNCHANGED <<page, chain, now, out, q,ex, ledger, c>>

RebindProvider ==
    /\ client' = SetProvider(client)
    /\ UNCHANGED <<page, chain, now, out, q,ex, ledger, c>>

TxTick ==
    /\ \E t \in TxClock :
          /\ t > now
          /\ now' = t
    /\ UNCHANGED <<chain, out, q, txVars>>

CallCreateOrder ==
    /\ ~Running
    /\ \E args \in CreateArgs : c' = CreateOrderStart(client, args)
    /\ UNCHANGED <<page, chain, now, out, q,ex, client, ledger>>

CallFillOrder ==
    /\ ~Running
    /\ \E args \in OrderArgs : c' = FillOrderStart(client, args)
    /\ UNCHANGED <<page, chain, now, out, q,ex, client, ledger>>

CallCancelOrder ==
    /\ ~Running
    /\ \E args \in OrderArgs : c' = CancelOrderStart(client, args)
    /\ UNCHANGED <<page, chain, now, out, q,ex, client, ledger>>

CallCleanup ==
    /\ ~Running
    /\ c' = CleanupStart(client, NoArgs)
    /\ UNCHANGED <<page, chain, now, out, q,ex, client, ledger>>

\* The request the call is suspended at is answered.
Resume ==
    /\ Running
    /\ \E a \in Answers(c, ledger) : c' = Continue(c, client, a, now, ledger)
    /\ UNCHANGED <<page, chain, now, out, q,ex, client, ledger>>

\* The request the call is suspended at fails.
Reject ==
    /\ Running
    /\ c' = Rejected(c)
    /\ UNCHANGED <<page, chain, now, out, q,ex, client, ledger>>

\* The ledger's owner changes the order creation fee while createOrder is in
\* flight.
LedgerFeeChange ==
    /\ c.op = "createOrder" /\ Running
    /\ ledger.fee # BigIntV(5)
    /\ ledger' = [ledger EXCEPT !.fee = BigIntV(5)]
    /\ UNCHANGED <<page, chain, now, out, q,ex, client, c>>

NextTx ==
    \/ ConnectSigner \/ RebindProvider \/ TxTick
    \/ CallCreateOrder \/ CallFillOrder \/ CallCancelOrder \/ CallCleanup
    \/ Resume \/ Reject

SpecTx == InitTx /\ [][NextTx]_vars

\* Every network request is eventually answered or fails: a suspended call
\* is eventually resumed.
SpecTxLive == SpecTx /\ WF_vars(Resume \/ Reject)

(***************************************************************************)
(* SpecFee: createOrder step by step, with connect and setProvider, on a   *)
(* ledger whose owner changes the creation fee while the call is in        *)
(* flight.                                                                 *)
(***************************************************************************)
NextFee ==
    \/ ConnectSigner \/ RebindProvider \/ LedgerFeeChange
    \/ CallCreateOrder \/ Resume \/ Reject

SpecFee == InitTx /\ [][NextFee]_vars

(***************************************************************************)
(* SpecFilter: getActiveOrders called with maker, sell-token and buy-token *)
(* filters, in the letter case of the ledger's addresses or in lower case, *)
(* while the ledger appends.                                               *)
(***************************************************************************)
FilterParams ==
    {Params(NoBlock, NoBlock, mk, st, bt) :
        mk \in {Null, "0xaa", MakerB}, st \in {Null, "0xc1", TokenD}, bt \in {Null, TokenC}}

CallFiltered ==
    /\ \E params \in FilterParams :
          out' = [called |-> TRUE, params |-> params, height |-> Len(chain), now |-> now,
                  orders |-> GetActiveOrders(params, chain, now)]
    /\ UNCHANGED <<chain, now, q, txVars>>

NextFilter == LedgerStep \/ CallFiltered

SpecFilter == InitActive /\ [][NextFilter]_vars

(***************************************************************************)
(* SpecPage: the page receives a client, the client or the account         *)
(* changes, the user switches tabs and clicks the buttons that are         *)
(* enabled, the client calls and the loadOrders calls return or fail.      *)
(***************************************************************************)
\* OTCContext.tsx lines 42-62: the context supplies a (new) client; the
\* effect runs.
SetClient ==
    /\ page.loads < MaxLoads
    /\ page' = UseEffect([page EXCEPT !.client = TRUE])
    /\ UNCHANGED <<chain, now, out, q, client, ledger, c, ex>>

\* The account changes; the effect runs.
AccountChange ==
    /\ page.client
    /\ page.loads < MaxLoads
    /\ page' = UseEffect([page EXCEPT !.address = IF @ = MakerA THEN MakerB ELSE MakerA])
    /\ UNCHANGED <<chain, now, out, q, client, ledger, c, ex>>

\* A loadOrders call of the effect returns or fails.
EffectLoadReturns ==
    /\ page.loads > 0
    /\ \E n \in 0..1 : page' = [LoadOrdersReturned(page, n) EXCEPT !.loads = @ - 1]
    /\ UNCHANGED <<chain, now, out, q, client, ledger, c, ex>>

EffectLoadFails ==
    /\ page.loads > 0
    /\ page' = [LoadOrdersFailed(page) EXCEPT !.loads = @ - 1]
    /\ UNCHANGED <<chain, now, out, q, client, ledger, c, ex>>

\* Line 217: a tab is selected.
SwitchTab ==
    /\ page' = [page EXCEPT !.tab = 1 - @]
    /\ UNCHANGED <<chain, now, out, q, client, ledger, c, ex>>

\* Lines 115-122, 139-145, 158-163: an enabled button is clicked, its handler
\* runs up to its client call.
ClickCreate ==
    /\ CreateButtonEnabled(page)
    /\ Len(page.ops) < MaxOps
    /\ page' = HandleStart(page, "createOrder")
    /\ UNCHANGED <<chain, now, out, q, client, ledger, c, ex>>

ClickFill ==
    /\ OrderButtonEnabled(page, "fillOrder")
    /\ Len(page.ops) < MaxOps
    /\ page' = HandleStart(page, "fillOrder")
    /\ UNCHANGED <<chain, now, out, q, client, ledger, c, ex>>

ClickCancel ==
    /\ OrderButtonEnabled(page, "cancelOrder")
    /\ Len(page.ops) < MaxOps
    /\ page' = HandleStart(page, "cancelOrder")
    /\ UNCHANGED <<chain, now, out, q, client, ledger, c, ex>>

\* The client call or the loadOrders call a handler is suspended at returns
\* or fails.
ClientReturns ==
    /\ \E i \in 1..Len(page.ops) :
          /\ page.ops[i].pc = "client"
          /\ page' = HandleClientReturned(page, i)
    /\ UNCHANGED <<chain, now, out, q, client, ledger, c, ex>>

ClientFails ==
    /\ \E i \in 1..Len(page.ops) :
          /\ page.ops[i].pc = "client"
          /\ page' = HandleClientFailed(page, i)
    /\ UNCHANGED <<chain, now, out, q, client, ledger, c, ex>>

HandlerLoadReturns ==
    /\ \E i \in 1..Len(page.ops), n \in 0..1 :
          /\ page.ops[i].pc = "loadOrders"
          /\ page' = HandleFinally(LoadOrdersReturned(page, n), i)
    /\ UNCHANGED <<chain, now, out, q, client, ledger, c, ex>>

HandlerLoadFails ==
    /\ \E i \in 1..Len(page.ops) :
          /\ page.ops[i].pc = "loadOrders"
          /\ page' = HandleFinally(LoadOrdersFailed(page), i)
    /\ UNCHANGED <<chain, now, out, q, client, ledger, c, ex>>

NextPage ==
    \/ SetClient \/ AccountChange \/ EffectLoadReturns \/ EffectLoadFails \/ SwitchTab
    \/ ClickCreate \/ ClickFill \/ ClickCancel
    \/ ClientReturns \/ ClientFails \/ HandlerLoadReturns \/ HandlerLoadFails

SpecPage == InitActive /\ [][NextPage]_vars

(***************************************************************************)
(* SpecExpiry: getOrderExpiryInfo, isOrderExpired and isInGracePeriod are  *)
(* called one at a time on a ledger whose two constants are fixed; each of *)
(* the two reads returns or fails; the clock advances.                     *)
(***************************************************************************)
ExpiryLedgers ==
    {LedgerOf(ZeroOrder, 3, x, g) : x \in {Days(5), Days(7)}, g \in {Days(3), Days(7)}}

\* The clock values of the model: up to MaxSkew + 1 seconds past the ends of
\* the lifetimes and grace periods of ExpiryLedgers.
ExpiryClock == {Days(d) + s : d \in {0, 5, 7, 8, 10, 12, 14}, s \in 0..(MaxSkew + 1)}

InitExpiry ==
    /\ chain = <<>>
    /\ now = 0
    /\ out = NoCall
    /\ q = NoQuery
    /\ client = NewClient
    /\ ledger \in ExpiryLedgers
    /\ c = NoTx
    /\ ex = NoExpiryCall
    /\ page = NoPage

ExpiryTick ==
    /\ \E t \in ExpiryClock :
          /\ t > now
          /\ now' = t
    /\ UNCHANGED <<chain, out, q, txVars>>

CallExpiryQuery ==
    /\ ex.pc \notin {"reading", "readingFee"}
    /\ \E op \in {"getOrderExpiryInfo", "isOrderExpired", "isInGracePeriod"},
          t \in 0..MaxSkew : ex' = ExpiryQueryStart(op, t)
    /\ UNCHANGED <<page, chain, now, out, q,client, ledger, c>>

ExpiryReadAnswer ==
    /\ ex.pc = "reading"
    /\ \E n \in ExpiryReads, ms \in {0, 500} :
          /\ ex.reads[n] = "pending"
          /\ ex' = ExpiryReadReturned(ex, ledger, n, now, ms)
    /\ UNCHANGED <<page, chain, now, out, q,client, ledger, c>>

ExpiryReadReject ==
    /\ ex.pc = "reading"
    /\ \E n \in ExpiryReads, ms \in {0, 500} :
          /\ ex.reads[n] = "pending"
          /\ ex' = ExpiryReadFailed(ex, ledger, n, now, ms)
    /\ UNCHANGED <<page, chain, now, out, q,client, ledger, c>>

CallGetOrderCreationFee ==
    /\ ex.pc \notin {"reading", "readingFee"}
    /\ ex' = FeeQueryStart
    /\ UNCHANGED <<page, chain, now, out, q,client, ledger, c>>

FeeReadAnswer ==
    /\ ex.pc = "readingFee"
    /\ ex' = FeeReadReturned(ex, ledger)
    /\ UNCHANGED <<page, chain, now, out, q,client, ledger, c>>

FeeReadReject ==
    /\ ex.pc = "readingFee"
    /\ ex' = FeeReadFailed(ex)
    /\ UNCHANGED <<page, chain, now, out, q,client, ledger, c>>

NextExpiry ==
    \/ ExpiryTick \/ CallExpiryQuery \/ ExpiryReadAnswer \/ ExpiryReadReject
    \/ CallGetOrderCreationFee \/ FeeReadAnswer \/ FeeReadReject

SpecExpiry == InitExpiry /\ [][NextExpiry]_vars

(***************************************************************************)
(* The active-order set as the specification states it: the creation       *)
(* records of a log whose identifier no fill, cancellation or cleanup      *)
(* record and no retry record's old identifier names, and which are not    *)
(* older than the order lifetime of 7 days.                                *)
(***************************************************************************)
StatedLifetime == 7 * 24 * 60 * 60

StatedActive(ch, t) ==
    SelectSeq(ch, LAMBDA e :
        /\ e.name = "OrderCreated"
        /\ \A i \in 1..Len(ch) :
              /\ ch[i].name \in TerminalNames => ch[i].orderId # e.orderId
              /\ ch[i].name = "RetryOrder" => ch[i].oldOrderId # e.orderId
        /\ t <= e.timestamp + StatedLifetime)

\* What a returned order list says of each order: identifier, maker, creation time.
Summary(orders) == [i \in 1..Len(orders) |-> <<orders[i].orderId, orders[i].maker, orders[i].createdAt>>]
EventSummary(events) == [i \in 1..Len(events) |-> <<events[i].orderId, events[i].maker, events[i].timestamp>>]

OrderIdsOf(orders) == {orders[i].orderId : i \in 1..Len(orders)}

NoFilter(params) == params.makerAddress = Null /\ params.sellToken = Null /\ params.buyToken = Null

\* The part of the log a completed call o has queried: its block range at the
\* height the ledger had during the call.
RangeEnd(o) == IF o.params.toBlock = NoBlock \/ o.params.toBlock.latest
               THEN o.height
               ELSE IF o.params.toBlock.n < o.height THEN o.params.toBlock.n ELSE o.height
Queried(o) == Prefix(chain, RangeEnd(o))

(***************************************************************************)
(* C1.  getActiveOrders called with no maker or token filter returns       *)
(* exactly the creation records of the queried streams whose identifier is *)
(* in none of the fill, cancellation and cleanup sets nor in the retry     *)
(* old-id set, and for which now <= createdAt + 7 days.                    *)
(***************************************************************************)
C1_ActiveExactly ==
    (out.called /\ NoFilter(out.params)) =>
        Summary(out.orders) = EventSummary(StatedActive(Queried(out), out.now))

\* A call has returned an order on the last second of its lifetime and has
\* left out another order of the log.
C1_Witness ==
    /\ out.called /\ NoFilter(out.params)
    /\ \E i \in 1..Len(out.orders) :
          out.now = out.orders[i].createdAt + StatedLifetime
    /\ \E i \in 1..RangeEnd(out) :
          chain[i].name = "OrderCreated" /\ chain[i].orderId \notin OrderIdsOf(out.orders)

(***************************************************************************)
(* C3.  Monotonicity: when the only change of the queried log between two  *)
(* calls with the same parameters is one added Filled, Canceled, CleanedUp *)
(* or Retried(old = X) record for X, X is in the second result only if it  *)
(* was in the first.                                                       *)
(***************************************************************************)
AddedTerminal(o1, o2, ch) ==
    /\ o1.called /\ o2.called
    /\ o1.params = o2.params
    /\ RangeEnd(o2) = RangeEnd(o1) + 1
    /\ ch[RangeEnd(o2)].name # "OrderCreated"

C3_Monotone ==
    [][AddedTerminal(out, out', chain') =>
          (EndedBy(chain'[RangeEnd(out')]) \in OrderIdsOf(out'.orders) =>
              EndedBy(chain'[RangeEnd(out')]) \in OrderIdsOf(out.orders))]_vars

\* A call made right after a terminal record was added for an order that is
\* created in the queried log, ended by nothing else and not expired.
C3_Witness ==
    /\ out.called
    /\ RangeEnd(out) >= 2
    /\ chain[RangeEnd(out)].name # "OrderCreated"
    /\ Live(EndedBy(chain[RangeEnd(out)]), Prefix(chain, RangeEnd(out) - 1))
    /\ \A i \in 1..RangeEnd(out) :
          chain[i].name = "OrderCreated" =>
              out.now <= chain[i].timestamp + StatedLifetime
    /\ EndedBy(chain[RangeEnd(out)]) \notin OrderIdsOf(out.orders)

(***************************************************************************)
(* C4.  Idempotence.  As stated: two calls over the same fixed block range *)
(* and the same streams return identical results.  As amended: they do     *)
(* when the clock reads the same at both calls.                            *)
(***************************************************************************)
SameStreams(o1, o2) ==
    /\ o1.called /\ o2.called
    /\ o1.params = o2.params
    /\ RangeEnd(o1) = RangeEnd(o2)

C4_IdempotentAsStated ==
    [][SameStreams(out, out') => out'.orders = out.orders]_vars

C4_IdempotentSameClock ==
    [][(SameStreams(out, out') /\ out'.now = out.now) => out'.orders = out.orders]_vars

\* A call over the fixed range of blocks 0..2 made after the ledger has
\* appended block 3, which ends an order the call still returns.
C4_Witness ==
    /\ out.called
    /\ out.params.toBlock = Block(2)
    /\ out.height = 3
    /\ chain[3].name # "OrderCreated"
    /\ EndedBy(chain[3]) \in OrderIdsOf(out.orders)

(***************************************************************************)
(* C2.  The order list a call returns while the ledger appends equals the  *)
(* active-order set of the ledger at one block height between the start    *)
(* and the return of the call, and any two orders of it were active        *)
(* together at one block height.                                           *)
(***************************************************************************)
ActiveIdsAt(h, t) == {e.orderId : e \in Range(StatedActive(Prefix(chain, h), t))}

C2_PointInTime ==
    q.pc = "done" =>
        /\ \E h \in q.start..out.height :
              Summary(out.orders) = EventSummary(StatedActive(Prefix(chain, h), out.now))
        /\ \A x, y \in OrderIdsOf(out.orders) :
              \E h \in 0..out.height : {x, y} \subseteq ActiveIdsAt(h, out.now)

(***************************************************************************)
(* The failure kinds of the specification, by the message the client       *)
(* throws.                                                                 *)
(***************************************************************************)
Kind(error) ==
    CASE error.message \in {"No signer connected", "Not authorized to fill this order",
                            "Only maker can cancel order"} -> "NotAuthorized"
      [] error.message \in {"Invalid sell token", "Invalid buy token", "Cannot swap same token",
                            "Invalid sell amount", "Invalid buy amount"} -> "InvalidInput"
      [] error.message = "Order does not exist" -> "NotFound"
      [] error.message = "Order is not active" -> "InactiveOrder"
      [] error.message = "Order has expired" -> "Expired"
      [] error.message = "Grace period has expired" -> "GracePeriodExpired"
      [] error.message = "Insufficient balance for buy token" -> "InsufficientFunds"
      [] error.message \in {"OrderCreated event not found", "OrderFilled event not found",
                            "OrderCanceled event not found"} -> "ProtocolViolation"
      [] error.message = "" -> "None"
      [] OTHER -> "Failure"

Over == c.pc \in {"done", "failed"}

\* The messages of the validation rules of the data model that parameters break.
BrokenRules(args) ==
    {m \in {"Invalid sell token", "Invalid buy token", "Cannot swap same token",
            "Invalid sell amount", "Invalid buy amount"} :
        \/ m = "Invalid sell token" /\ args.sellToken = ZeroAddress
        \/ m = "Invalid buy token" /\ args.buyToken = ZeroAddress
        \/ m = "Cannot swap same token" /\ args.sellToken = args.buyToken
        \/ m = "Invalid sell amount" /\ args.sellAmount <= 0
        \/ m = "Invalid buy amount" /\ args.buyAmount <= 0}

Issued(request) == request \in Range(c.issued)

\* Request x was issued before request y, if y was issued at all.
Before(x, y) ==
    \A j \in 1..Len(c.issued) :
        c.issued[j] = y => \E i \in 1..(j - 1) : c.issued[i] = x

(***************************************************************************)
(* C5.  createOrder called by a connected client with parameters that      *)
(* break a validation rule fails with InvalidInput before it has issued    *)
(* any network call, read or write.                                        *)
(***************************************************************************)
C5_InvalidBeforeNetwork ==
    (c.op = "createOrder" /\ c.caller # Null /\ BrokenRules(c.args) # {}) =>
        /\ c.pc = "failed"
        /\ Kind(c.error) = "InvalidInput"
        /\ c.issued = <<>>

C7_RestrictedTaker ==
    (/\ c.op = "fillOrder" /\ Over
     /\ c.order # NullOrder /\ c.order.isActive
     /\ c.currentTime <= c.order.timestamp.v + StatedLifetime
     /\ c.order.taker # ZeroAddress
     /\ c.caller \notin {Null, c.order.taker}
     /\ client.signer = c.caller) =>
        /\ c.pc = "failed" /\ Kind(c.error) = "NotAuthorized"
        /\ ~Issued("approve")
        /\ ~Issued("fillOrder")

(***************************************************************************)
(* C8.  In createOrder and fillOrder the create or fill call is issued     *)
(* only after the approval of the same invocation is confirmed, the wait   *)
(* for a confirmation follows the submission it waits for, and the         *)
(* approval and the submission are never both unconfirmed.                 *)
(***************************************************************************)
C8_ApproveThenSubmit ==
    c.op \in {"createOrder", "fillOrder"} =>
        /\ c.submit # "none" => c.approve = "confirmed"
        /\ Before("approve", "approve.wait")
        /\ Before("approve.wait", c.op)
        /\ Before(c.op, IF c.op = "createOrder" THEN "createOrder.wait" ELSE "fillOrder.wait")

\* createOrder has run to its end: approval, its confirmation, the create
\* call, its confirmation.
C8_Witness ==
    /\ c.op = "createOrder"
    /\ c.pc = "done"
    /\ c.issued = <<"orderCreationFee", "approve", "approve.wait", "createOrder", "createOrder.wait">>

(***************************************************************************)
(* C9.  cancelOrder called by the order's maker on a client whose contract *)
(* can send fails with GracePeriodExpired, without submitting the cancel   *)
(* call, exactly when                                                      *)
(* now > creation timestamp + lifetime + grace period, the two durations   *)
(* being the ones getOrderExpiryInfo reports.                              *)
(***************************************************************************)
C9_GraceWindow ==
    (/\ c.op = "cancelOrder" /\ Over
     /\ c.signerAddress # Null /\ c.signerAddress = c.order.maker
     /\ c.error.message # NoSender) =>
        LET info == GetOrderExpiryInfo(ledger, TRUE, TRUE)
        IN (Kind(c.error) = "GracePeriodExpired" /\ ~Issued("cancelOrder"))
             <=> (c.currentTime > c.order.timestamp.v + info.orderExpiry + info.gracePeriod)

(***************************************************************************)
(* C10.  With no signer connected, createOrder, fillOrder, cancelOrder and *)
(* cleanupExpiredOrders fail with NotAuthorized and issue no ledger read   *)
(* or write.                                                               *)
(***************************************************************************)
C10_SignerRequired ==
    (c.op # "none" /\ c.caller = Null) =>
        /\ c.pc = "failed"
        /\ Kind(c.error) = "NotAuthorized"
        /\ c.issued = <<>>

\* cancelOrder was called on a client without a signer.
C10_Witness ==
    /\ c.op = "cancelOrder"
    /\ c.caller = Null
    /\ c.pc = "failed"

\* The records of a receipt that carry a name, first to last.
RECURSIVE RecordsNamed(_, _)
RecordsNamed(logs, name) ==
    IF logs = <<>> THEN <<>>
    ELSE IF Head(logs).name = name
         THEN <<[orderId |-> Head(logs).orderId, timestamp |-> Head(logs).timestamp.v]>>
                  \o RecordsNamed(Tail(logs), name)
         ELSE RecordsNamed(Tail(logs), name)

(***************************************************************************)
(* C11.  When the cleanup transaction is confirmed, cleanupExpiredOrders   *)
(* succeeds, whatever the receipt holds, and returns in cleanedOrders,     *)
(* errors, retries and feesDistributed exactly the receipt's               *)
(* OrderCleanedUp, CleanupError, RetryOrder and CleanupFeesDistributed     *)
(* records, in receipt order.                                              *)
(***************************************************************************)
C11_CleanupLists ==
    (c.op = "cleanupExpiredOrders" /\ c.submit = "confirmed") =>
        /\ c.pc = "done"
        /\ c.result.cleanedOrders = RecordsNamed(c.logs, "OrderCleanedUp")
        /\ c.result.errors = RecordsNamed(c.logs, "CleanupError")
        /\ c.result.retries = RecordsNamed(c.logs, "RetryOrder")
        /\ c.result.feesDistributed = RecordsNamed(c.logs, "CleanupFeesDistributed")

\* A receipt with two OrderCleanedUp records around one CleanupError record
\* gave lists of lengths 2, 1, 0 and 0.
C11_Witness ==
    /\ c.op = "cleanupExpiredOrders"
    /\ c.pc = "done"
    /\ Len(c.logs) = 3
    /\ Len(c.result.cleanedOrders) = 2
    /\ c.result.cleanedOrders[1].orderId = 2
    /\ Len(c.result.errors) = 1
    /\ c.result.retries = <<>>
    /\ c.result.feesDistributed = <<>>

\* The cleanup succeeded on a receipt without any record.
C11_WitnessEmpty ==
    /\ c.op = "cleanupExpiredOrders"
    /\ c.pc = "done"
    /\ c.logs = <<>>

\* The clock of an expiry query when it computed its value, in milliseconds.
ClockMs == ex.at * 1000 + ex.ms

(***************************************************************************)
(* C12.  With L and G the lifetime and grace period getOrderExpiryInfo     *)
(* returned to the method, t the creation timestamp and now the clock:     *)
(* isOrderExpired is true exactly when now > t + L, and isInGracePeriod is *)
(* true exactly when t + L < now <= t + L + G.                             *)
(***************************************************************************)
C12_ExpiryBoundaries ==
    LET L == ex.info.orderExpiry
        G == ex.info.gracePeriod
        t == ex.timestamp
    IN (ex.pc = "done") =>
          /\ ex.op = "isOrderExpired" => (ex.result <=> ClockMs > (t + L) * 1000)
          /\ ex.op = "isInGracePeriod" =>
                (ex.result <=> ((t + L) * 1000 < ClockMs /\ ClockMs <= (t + L + G) * 1000))
          /\ (ex.op = "isOrderExpired" /\ ex.ms = 0 /\ ex.at \in {t, t + L}) => ~ex.result
          /\ (ex.op = "isInGracePeriod" /\ ex.ms = 0 /\ ex.at \in {t, t + L, t + L + G + 1}) => ~ex.result
          /\ (ex.op \in {"isOrderExpired", "isInGracePeriod"} /\ ex.ms = 0 /\ ex.at = t + L + 1)
                => ex.result
          /\ (ex.op = "isInGracePeriod" /\ ex.ms = 0 /\ ex.at = t + L + G) => ex.result

\* isInGracePeriod answered true at the last second of a 3-day grace period
\* the ledger reported.
C12_Witness ==
    /\ ex.op = "isInGracePeriod"
    /\ ex.pc = "done"
    /\ ex.info.gracePeriod = Days(3)
    /\ ex.ms = 0
    /\ ex.at = ex.timestamp + ex.info.orderExpiry + ex.info.gracePeriod
    /\ ex.result

(***************************************************************************)
(* C13.  getOrderExpiryInfo never fails: it returns the ledger's two       *)
(* constants when both reads returned and (7 days, 7 days) when a read     *)
(* failed, never one ledger value with one default.                        *)
(***************************************************************************)
C13_ExpiryInfoAllOrNothing ==
    ex.op \in {"getOrderExpiryInfo", "isOrderExpired", "isInGracePeriod"} =>
        /\ ex.pc \in {"reading", "done"}
        /\ (ex.pc = "reading") => \A n \in ExpiryReads : ex.reads[n] # "failed"
        /\ (ex.pc = "done") =>
              IF \A n \in ExpiryReads : ex.reads[n] = "ok"
              THEN ex.info = [orderExpiry |-> ledger.expiry.v, gracePeriod |-> ledger.grace.v]
              ELSE ex.info = [orderExpiry |-> StatedLifetime, gracePeriod |-> StatedLifetime]

\* GRACE_PERIOD returned 3 days, then ORDER_EXPIRY failed on a ledger whose
\* lifetime is 5 days: the defaults were returned.
C13_Witness ==
    /\ ex.pc = "done"
    /\ ex.reads["GRACE_PERIOD"] = "ok"
    /\ ex.reads["ORDER_EXPIRY"] = "failed"
    /\ ledger.expiry.v = Days(5)
    /\ ledger.grace.v = Days(3)
    /\ ex.info = [orderExpiry |-> Days(7), gracePeriod |-> Days(7)]

\* The number of times the call in flight has issued a request.
Count(request) == Cardinality({i \in 1..Len(c.issued) : c.issued[i] = request})

\* The record the method looks for in the receipt of its transaction.
ExpectedRecord(op) ==
    CASE op = "createOrder" -> "OrderCreated"
      [] op = "fillOrder" -> "OrderFilled"
      [] OTHER -> "OrderCanceled"

(***************************************************************************)
(* C14.  In createOrder, fillOrder and cancelOrder, when the submitted     *)
(* transaction is confirmed and its receipt holds no OrderCreated,         *)
(* OrderFilled or OrderCanceled record respectively, the call has failed   *)
(* with the ProtocolViolation message, which no validation, precondition   *)
(* or transport failure carries, and the transaction was submitted once.   *)
(***************************************************************************)
C14_ProtocolViolation ==
    (/\ c.op \in {"createOrder", "fillOrder", "cancelOrder"}
     /\ c.submit = "confirmed"
     /\ \A i \in 1..Len(c.logs) : c.logs[i].name # ExpectedRecord(c.op)) =>
        /\ c.pc = "failed"
        /\ Kind(c.error) = "ProtocolViolation"
        /\ c.error.prefix = PrefixOf(c.op)
        /\ c.error.message \notin {NetworkError, NoSender, MixedTypes}
        /\ Count(c.op) = 1

\* The create transaction was confirmed with a receipt without OrderCreated.
C14_Witness ==
    /\ c.op = "createOrder"
    /\ c.submit = "confirmed"
    /\ c.logs = <<>>
    /\ c.pc = "failed"
    /\ c.error.message = "OrderCreated event not found"

\* The call variable now holds a call that was just entered with its arguments.
NewInvocation ==
    c' = CASE c'.op = "createOrder" -> CreateOrderStart(client, c'.args)
           [] c'.op = "fillOrder" -> FillOrderStart(client, c'.args)
           [] c'.op = "cancelOrder" -> CancelOrderStart(client, c'.args)
           [] OTHER -> CleanupStart(client, c'.args)

AtMostOnce ==
    /\ Count("approve") <= 1
    /\ Count("approve.wait") <= 1
    /\ c.op # "none" => Count(c.op) <= 1
    /\ c.pc = "done" => c.error = NoError
    /\ c.pc = "failed" => c.error # NoError

(***************************************************************************)
(* C15.  An invocation of createOrder, fillOrder, cancelOrder or           *)
(* cleanupExpiredOrders issues at most one approval and at most one        *)
(* state-changing ledger call, ends either done or failed, and once it has *)
(* ended takes no further step: its state changes only when a new          *)
(* invocation is entered.                                                  *)
(***************************************************************************)
C15_AbortOnFailure ==
    [][/\ AtMostOnce'
       /\ (Over /\ c' # c) => NewInvocation]_vars

\* createOrder failed while waiting for the approval's confirmation: the
\* approval was issued once and the create call never.
C15_Witness ==
    /\ c.op = "createOrder"
    /\ c.pc = "failed"
    /\ c.issued = <<"orderCreationFee", "approve", "approve.wait">>
    /\ c.error.message = NetworkError

\* The call in flight ended without a request of its own failing in transport.
EndedOnItsOwn == Over /\ c.error.message # NetworkError

\* The order record the call read is active and within its lifetime, and the
\* caller is the signer and satisfies the taker restriction.
Fillable ==
    /\ c.order # NullOrder /\ c.order.isActive
    /\ c.currentTime <= c.order.timestamp.v + StatedLifetime
    /\ c.caller # Null /\ client.signer = c.caller
    /\ c.order.taker \in {ZeroAddress, c.caller}

(***************************************************************************)
(* C16.  In fillOrder and cancelOrder a precondition failure is raised     *)
(* before any approval or state-changing call is issued; a non-maker       *)
(* caller of cancelOrder gets NotAuthorized with no cancel call; and a     *)
(* fillOrder call that passes the order checks either gets                 *)
(* InsufficientFunds with no approval issued or goes on to issue the       *)
(* approval.                                                               *)
(***************************************************************************)
C16_PreconditionsFirst ==
    /\ (/\ c.op \in {"fillOrder", "cancelOrder"} /\ c.pc = "failed"
        /\ Kind(c.error) \in {"NotFound", "InactiveOrder", "Expired", "NotAuthorized",
                              "InsufficientFunds", "GracePeriodExpired"}) =>
          (~Issued("approve") /\ ~Issued(c.op))
    /\ (/\ c.op = "cancelOrder" /\ Over
        /\ c.signerAddress # Null /\ c.signerAddress # c.order.maker) =>
          (c.pc = "failed" /\ Kind(c.error) = "NotAuthorized" /\ ~Issued("cancelOrder"))
    /\ (c.op = "fillOrder" /\ EndedOnItsOwn /\ Fillable) =>
          \/ c.pc = "failed" /\ Kind(c.error) = "InsufficientFunds" /\ ~Issued("approve")
          \/ Issued("approve")

(***************************************************************************)
(* C17.  For an order the ledger reports as active, fillOrder fails with   *)
(* Expired if and only if now > creation timestamp + 7 days.               *)
(***************************************************************************)
C17_ExpiredExactly ==
    (/\ c.op = "fillOrder" /\ EndedOnItsOwn
     /\ c.order # NullOrder /\ c.order.isActive) =>
        ((c.pc = "failed" /\ Kind(c.error) = "Expired")
            <=> (c.currentTime > c.order.timestamp.v + StatedLifetime))

\* fillOrder is suspended at its order read, and the order it asks for is
\* active, within its lifetime and open to the connected signer.
FillReady ==
    /\ c.op = "fillOrder" /\ c.pc = "orders"
    /\ c.caller # Null /\ client.signer = c.caller
    /\ ledger.orders[c.args.orderId].isActive
    /\ now <= ledger.orders[c.args.orderId].timestamp.v + StatedLifetime
    /\ ledger.orders[c.args.orderId].taker \in {ZeroAddress, c.caller}

\* fillOrder is done, or has failed for a reason the conditions of a fill
\* leave open: a request failed, the balance is short, the receipt has no
\* OrderFilled record, or the clock or the client changed during the call.
FillDoneOrExcused ==
    /\ c.op = "fillOrder"
    /\ \/ c.pc = "done" /\ Before("approve", "fillOrder") /\ Issued("fillOrder")
       \/ /\ c.pc = "failed"
          /\ \/ c.error.message \in {NetworkError, NoSender}
             \/ Kind(c.error) \in {"InsufficientFunds", "ProtocolViolation", "Expired",
                                   "NotAuthorized"}

(***************************************************************************)
(* C18.  With every network request eventually answered, a fillOrder call  *)
(* by a signer that satisfies the taker restriction, on an active order    *)
(* within its lifetime, eventually is done, having issued the approval and *)
(* then the fill call, unless a request fails, the balance is short or the *)
(* receipt has no OrderFilled record.                                      *)
(***************************************************************************)
C18_FillCompletes == FillReady ~> FillDoneOrExcused

(***************************************************************************)
(* C19.  fillOrder for an identifier the ledger holds no order record for  *)
(* fails with NotFound and issues no approval or fill call; it fails with  *)
(* InactiveOrder only for an existing record whose active flag is false.   *)
(***************************************************************************)
C19_NotFound ==
    (c.op = "fillOrder" /\ EndedOnItsOwn /\ c.order # NullOrder) =>
        /\ (ledger.orders[c.args.orderId] = ZeroOrder) =>
              (/\ c.pc = "failed" /\ Kind(c.error) = "NotFound"
               /\ ~Issued("approve") /\ ~Issued("fillOrder"))
        /\ (c.pc = "failed" /\ Kind(c.error) = "InactiveOrder") =>
              (ledger.orders[c.args.orderId] # ZeroOrder /\ ~c.order.isActive)

(***************************************************************************)
(* C20.  A createOrder or fillOrder call sends its approval and its create *)
(* or fill call under the signer the client had when the call was entered, *)
(* whatever connect and setProvider do while the call is suspended.        *)
(***************************************************************************)
C20_SignerOfTheCall ==
    c.op \in {"createOrder", "fillOrder"} =>
        /\ c.approver \in {Null, c.caller}
        /\ c.submitter \in {Null, c.caller}

(***************************************************************************)
(* C21.  getActiveOrders fails as a whole when one of its five stream      *)
(* queries fails: a failed call has returned no order list, and a returned *)
(* list comes from a call all five of whose queries were answered.         *)
(***************************************************************************)
C21_AllOrNothing ==
    /\ (q.pc = "failed") => out = NoCall
    /\ out.called => (q.pc = "done" /\ \A n \in StreamNames : q.seen[n] # NoId)

\* The call failed on its last pending query, after the ledger had appended
\* an order creation and answered the other four queries.
C21_Witness ==
    /\ q.pc = "failed"
    /\ Cardinality({n \in StreamNames : q.seen[n] # NoId}) = 4
    /\ q.seen["OrderCreated"] >= 1

(***************************************************************************)
(* C22.  Apart from the fallback of getOrderExpiryInfo, a reading          *)
(* operation one of whose ledger reads failed has failed: it has not       *)
(* returned a value.                                                       *)
(***************************************************************************)
C22_NoSwallowedFailure ==
    /\ (ex.op = "getOrderCreationFee" /\ ex.feeRead = "failed") => ex.pc = "failed"
    /\ (ex.op = "getOrderCreationFee" /\ ex.pc = "done") => ex.value = ledger.fee

\* Two addresses are equal when letter case is ignored.
SameAddress(a, b) == ToLowerCase(a) = ToLowerCase(b)

\* Order o passes every filter that params supplies.
PassesFilters(o, params) ==
    /\ params.makerAddress # Null => SameAddress(o.maker, params.makerAddress)
    /\ params.sellToken # Null => SameAddress(o.sell, params.sellToken)
    /\ params.buyToken # Null => SameAddress(o.buy, params.buyToken)

(***************************************************************************)
(* C23.  With any combination of maker, sell-token and buy-token filters,  *)
(* getActiveOrders returns exactly the orders of the unfiltered active set *)
(* whose maker, sell token and buy token equal each supplied filter value, *)
(* letter case ignored, in the order of the unfiltered set; an absent      *)
(* filter excludes nothing.                                                *)
(***************************************************************************)
C23_Filters ==
    out.called =>
        out.orders = SelectSeq(GetActiveOrders(NoParams, Prefix(chain, out.height), out.now),
                               LAMBDA o : PassesFilters(o, out.params))

\* A lower-case maker filter kept the order of 0xAA and dropped the order of
\* 0xBb.
C23_Witness ==
    /\ out.called
    /\ out.params.makerAddress = "0xaa"
    /\ out.params.sellToken = Null
    /\ Len(out.orders) = 1
    /\ out.orders[1].maker = MakerA
    /\ Len(GetActiveOrders(NoParams, Prefix(chain, out.height), out.now)) = 2

(***************************************************************************)
(* C24.  After any sequence of connect and setProvider calls, whenever the *)
(* client's signer is non-null its contract is bound to that signer, and   *)
(* no call that passed the signer check fails for want of a sender.        *)
(***************************************************************************)
C24_ContractBoundToSigner ==
    /\ client.signer # Null => client.runner = client.signer
    /\ c.caller # Null => c.error.message # NoSender

(***************************************************************************)
(* C27.  cancelOrder checks the record, the caller and the deadline only:  *)
(* called by the maker of an order whose active flag is false, within 14   *)
(* days of its creation, it submits the cancel transaction, unless a       *)
(* request fails, the signer is replaced during the call or the contract   *)
(* cannot send.                                                            *)
(***************************************************************************)
C27_CancelIgnoresActiveFlag ==
    (/\ c.op = "cancelOrder" /\ Over
     /\ c.order # NullOrder /\ ~c.order.isActive
     /\ c.caller = c.order.maker
     /\ c.currentTime <= c.order.timestamp.v + Days(14)
     /\ c.error.message \notin {NetworkError, NoSender, "Only maker can cancel order"}) =>
        Issued("cancelOrder")

\* The maker's cancel call on an inactive order was submitted and confirmed.
C27_Witness ==
    /\ c.op = "cancelOrder"
    /\ c.pc = "done"
    /\ ~c.order.isActive
    /\ c.order.maker = c.caller
    /\ Issued("cancelOrder")

\* The amount the call's approval grants to the ledger.
ApprovedAmount == IF c.op = "createOrder" THEN c.args.sellAmount ELSE c.args.buyAmount

C26_FeeReadOnce ==
    c.op = "createOrder" =>
        /\ c.caller # Null => Count("orderCreationFee") = 1
        /\ Before("orderCreationFee", "approve")
        /\ (c.pc = "failed" /\ c.error.message = Validation(c.args)) =>
              Issued("orderCreationFee")
        /\ c.submit # "none" => (c.value = c.fee /\ c.fee.v \in {3, 5})
        /\ (c.fee = BigIntV(5)) => ledger.fee = BigIntV(5)
        /\ (c.pc = "failed") =>
              c.error.message \in {"No signer connected", Validation(c.args), NetworkError,
                                   NoSender, "OrderCreated event not found"}

\* The create call was confirmed with the fee of 3 read at its start attached,
\* below 90% of the fee of 5 the ledger has changed to.
C26_Witness ==
    /\ c.op = "createOrder"
    /\ c.pc = "done"
    /\ c.value = BigIntV(3)
    /\ c.minFee = BigIntV(2) /\ c.maxFee = BigIntV(4)
    /\ ledger.fee = BigIntV(5)
    /\ c.value.v < (ledger.fee.v * 90) \div 100

\* The handlers of the page whose client call is in flight.
InFlight == {i \in 1..Len(page.ops) : page.ops[i].pc = "client"}

(***************************************************************************)
(* C28.  While the client call of a create, fill or cancel handler of the  *)
(* page is in flight the loading flag is true, and the client call of at   *)
(* most one handler is in flight, whatever loadOrders calls the effect     *)
(* starts meanwhile.                                                       *)
(***************************************************************************)
C28_LoadingWhileInFlight ==
    /\ InFlight # {} => page.loading
    /\ Cardinality(InFlight) <= 1

====
